---- MODULE Spec2Model ----
(***************************************************************************)
(* Control logic of the OmniVision OV64A40 sensor driver                    *)
(* (drivers/media/i2c/ov64a40.c): the mode catalogue, the timing resolver,  *)
(* the control handlers, format negotiation and the stream start/stop       *)
(* sequence, over an I2C bus whose transactions may fail and a runtime-PM   *)
(* core that may suspend the device when it is idle.                        *)
(*                                                                          *)
(* Every handler is one action.  The record s threaded through the          *)
(* operators below is the driver's data while a handler runs:               *)
(*   mode     index into ov64a40_modes (ov64a40->mode)                      *)
(*   ctrl     the controls: [val, min, max, def] per control                *)
(*   grabbed  the controls carrying V4L2_CTRL_FLAG_GRABBED                  *)
(*   usage    runtime-PM usage count,  active  runtime-PM status            *)
(*   fmt/crop the active pad format and crop rectangle                      *)
(*   log      the bus / PM / grab events issued by the running handler      *)
(*   nio      number of bus transactions issued by the running handler      *)
(*   failAt   which bus transaction of this handler fails (0: none)         *)
(*   ret      the value returned by the call that just finished             *)
(***************************************************************************)
EXTENDS Integers, Sequences, FiniteSets, TLC

(***************************************************************************)
(* Constants of ov64a40_regs.h.                                             *)
(***************************************************************************)
OV64A40_XCLK_FREQ == 24000000
OV64A40_PIXEL_RATE == 300000000
OV64A40_LINK_FREQ_360M == 360000000
OV64A40_LINK_FREQ_456M == 456000000
OV64A40_EXPOSURE_MIN == 16
OV64A40_EXPOSURE_MARGIN == 32
OV64A40_ANA_GAIN_MIN == 128
OV64A40_ANA_GAIN_MAX == 2047
OV64A40_ANA_GAIN_DEFAULT == 128
OV64A40_VTS_MAX == 16777215
OV64A40_VBLANK_MIN == 128

(* enum ov64a40_link_freq_ids *)
OV64A40_LINK_FREQ_456M_ID == 0
OV64A40_LINK_FREQ_360M_ID == 1
OV64A40_NUM_LINK_FREQ == 2

(* ov64a40_test_pattern_val[]: menu index -> register value (symbolic). *)
ov64a40_test_pattern_val ==
  << "TEST_PATTERN_DISABLED", "TEST_PATTERN_TYPE1", "TEST_PATTERN_TYPE2",
     "TEST_PATTERN_TYPE3", "TEST_PATTERN_TYPE4" >>

(* ov64a40_mbus_codes[], indexed by hflip << 1 | vflip. *)
ov64a40_mbus_codes == << "SBGGR10", "SGRBG10", "SGBRG10", "SRGGB10" >>

Rect(l, t, w, h) == [left |-> l, top |-> t, width |-> w, height |-> h]

Subsampling(xo, xe, yo, ye, vb, hb) ==
  [x_odd_inc |-> xo, x_even_inc |-> xe, y_odd_inc |-> yo, y_even_inc |-> ye,
   vbin |-> vb, hbin |-> hb]

Timings(v, p) == [vts |-> v, ppl |-> p]

(***************************************************************************)
(* ov64a40_modes[]: timings_default is indexed by link-frequency id + 1.    *)
(***************************************************************************)
ov64a40_modes ==
  << [width |-> 9248, height |-> 6944,
      timings_default |-> << Timings(7072, 4072), Timings(7072, 5248) >>,
      reglist |-> "ov64a40_9248x6944",
      analogue_crop |-> Rect(0, 0, 9280, 6976),
      digital_crop |-> Rect(17, 16, 9248, 6944),
      subsampling |-> Subsampling(1, 1, 1, 1, FALSE, FALSE)],
     [width |-> 8000, height |-> 6000,
      timings_default |-> << Timings(6400, 3848), Timings(6304, 4736) >>,
      reglist |-> "ov64a40_8000x6000",
      analogue_crop |-> Rect(624, 472, 8048, 6032),
      digital_crop |-> Rect(17, 16, 8000, 6000),
      subsampling |-> Subsampling(1, 1, 1, 1, FALSE, FALSE)],
     [width |-> 4624, height |-> 3472,
      timings_default |-> << Timings(3533, 2112), Timings(3939, 2720) >>,
      reglist |-> "ov64a40_4624_3472",
      analogue_crop |-> Rect(0, 0, 9280, 6976),
      digital_crop |-> Rect(9, 8, 4624, 3472),
      subsampling |-> Subsampling(3, 1, 1, 1, TRUE, FALSE)],
     [width |-> 3840, height |-> 2160,
      timings_default |-> << Timings(2218, 1690), Timings(2270, 2202) >>,
      reglist |-> "ov64a40_3840x2160",
      analogue_crop |-> Rect(784, 1312, 7712, 4352),
      digital_crop |-> Rect(9, 8, 3840, 2160),
      subsampling |-> Subsampling(3, 1, 1, 1, TRUE, FALSE)],
     [width |-> 2312, height |-> 1736,
      timings_default |-> << Timings(1998, 1248), Timings(1994, 1504) >>,
      reglist |-> "ov64a40_2312_1736",
      analogue_crop |-> Rect(0, 0, 9280, 6976),
      digital_crop |-> Rect(5, 4, 2312, 1736),
      subsampling |-> Subsampling(3, 1, 3, 1, TRUE, TRUE)],
     [width |-> 1920, height |-> 1080,
      timings_default |-> << Timings(1397, 880), Timings(1216, 1360) >>,
      reglist |-> "ov64a40_1920x1080",
      analogue_crop |-> Rect(784, 1312, 7712, 4352),
      digital_crop |-> Rect(7, 6, 1920, 1080),
      subsampling |-> Subsampling(3, 1, 3, 1, TRUE, TRUE)] >>

NumModes == Len(ov64a40_modes)

(***************************************************************************)
(* ov64a40_get_timings: the timing variant is chosen by the VALUE of the    *)
(* link frequency at the given (0-based) menu index.                        *)
(***************************************************************************)
ov64a40_get_timings_by_index(ov, link_freq_index) ==
  ov64a40_modes[ov.mode].timings_default[link_freq_index + 1]

ov64a40_get_timings_swapped(ov, link_freq_index) ==
  LET link_freq == ov.link_frequencies[link_freq_index + 1]
      timings_index == IF link_freq = OV64A40_LINK_FREQ_360M
                       THEN OV64A40_LINK_FREQ_360M_ID
                       ELSE OV64A40_LINK_FREQ_456M_ID
      t == ov64a40_modes[ov.mode].timings_default[timings_index + 1]
  IN  Timings(t.ppl, t.vts)

ov64a40_get_timings(ov, link_freq_index) ==
  LET link_freq == ov.link_frequencies[link_freq_index + 1]
      timings_index == IF link_freq = OV64A40_LINK_FREQ_360M
                       THEN OV64A40_LINK_FREQ_360M_ID
                       ELSE OV64A40_LINK_FREQ_456M_ID
  IN  ov64a40_modes[ov.mode].timings_default[timings_index + 1]

(***************************************************************************)
(* Return values.                                                           *)
(***************************************************************************)
OK == "OK"
IsErr(r) == r # OK

(***************************************************************************)
(* The CCI bus helpers (v4l2-cci.c).  One event per bus transaction; the    *)
(* failAt-th transaction of the running handler fails with EIO.             *)
(***************************************************************************)
Event(op, reg, mask, val, sym, ok) ==
  [op |-> op, reg |-> reg, mask |-> mask, val |-> val, sym |-> sym, ok |-> ok]

Note(s, op, reg, val) ==
  [s EXCEPT !.log = Append(@, Event(op, reg, "", val, "", TRUE))]

Io(s, op, reg, mask, val, sym) ==
  LET n  == s.nio + 1
      ok == n # s.failAt
  IN  [s EXCEPT !.nio = n,
                !.log = Append(@, Event(op, reg, mask, val, sym, ok)),
                !.ret = IF ok THEN OK ELSE "EIO"]

(* cci_write(map, reg, val, NULL) *)
cci_write(s, reg, val, sym) == Io(s, "write", reg, "", val, sym)

(* cci_write(map, reg, val, &ret): skipped once ret holds an error *)
cci_write_err(s, reg, val) ==
  IF IsErr(s.ret) THEN s ELSE Io(s, "write", reg, "", val, "")

(* cci_update_bits(map, reg, mask, val, NULL) *)
cci_update_bits(s, reg, mask, val) == Io(s, "update_bits", reg, mask, val, "")

(* cci_update_bits(map, reg, mask, val, &ret) *)
cci_update_bits_err(s, reg, mask, val) ==
  IF IsErr(s.ret) THEN s ELSE Io(s, "update_bits", reg, mask, val, "")

(* cci_multi_reg_write(map, regs, num, NULL): stops at its first failure *)
cci_multi_reg_write(s, table) == Io(s, "multi_write", table, "", 0, "")

(* cci_multi_reg_write(map, regs, num, &ret) *)
cci_multi_reg_write_err(s, table) ==
  IF IsErr(s.ret) THEN s ELSE Io(s, "multi_write", table, "", 0, "")

(***************************************************************************)
(* Runtime PM (pm_runtime.h).                                               *)
(***************************************************************************)
(* pm_runtime_resume_and_get: resumes a suspended device through            *)
(* ov64a40_power_on; on failure the usage count is left as it was.          *)
pm_runtime_resume_and_get(s) ==
  IF s.active
  THEN Note([s EXCEPT !.usage = @ + 1, !.ret = OK], "pm_get", "", 1)
  ELSE IF s.pwrFail
       THEN [s EXCEPT !.ret = "EPOWER",
                      !.log = Append(@, Event("pm_get", "", "", 0, "", FALSE))]
       ELSE Note([s EXCEPT !.active = TRUE, !.usage = @ + 1, !.ret = OK],
                 "pm_get", "power_on", 1)

(* pm_runtime_mark_last_busy + pm_runtime_put_autosuspend: the power-down   *)
(* itself happens later, when the autosuspend timer expires.                *)
pm_runtime_put_autosuspend(s) ==
  Note([s EXCEPT !.usage = @ - 1], "pm_put", "", 1)

(***************************************************************************)
(* The V4L2 control framework (v4l2-ctrls-core.c, v4l2-ctrls-api.c).        *)
(***************************************************************************)
IntegerCtrls == {"exposure", "vblank", "hblank", "gain", "pixel_rate"}
MenuCtrls    == {"link_freq", "test_pattern"}
BooleanCtrls == {"hflip", "vflip"}
CtrlIds      == IntegerCtrls \cup MenuCtrls \cup BooleanCtrls

(* V4L2_CTRL_FLAG_READ_ONLY: hblank (set by ov64a40_init_controls) and      *)
(* pixel_rate (set by v4l2_ctrl_fill).                                      *)
ReadOnlyCtrls == {"hblank", "pixel_rate"}

(* hdl->ctrls: the controls in the order ov64a40_init_controls made them.   *)
HandlerOrder ==
  << "pixel_rate", "link_freq", "test_pattern", "exposure", "hblank",
     "vblank", "gain", "hflip", "vflip" >>

Ctrl(val, min, max, def) == [val |-> val, min |-> min, max |-> max, def |-> def]

Clamp(v, lo, hi) == IF v < lo THEN lo ELSE IF v > hi THEN hi ELSE v

(* check_range for the integer types *)
check_range(min, max, step, def) ==
  IF step = 0 \/ min > max \/ def < min \/ def > max THEN "ERANGE" ELSE OK

(* validate_new / std_validate: an integer is clamped into the range, a     *)
(* menu index outside the range is refused, a boolean is normalised.        *)
validate_ret(s, id, val) ==
  IF id \in MenuCtrls /\ (val < s.ctrl[id].min \/ val > s.ctrl[id].max)
  THEN "ERANGE" ELSE OK

validate_val(s, id, val) ==
  IF id \in IntegerCtrls THEN Clamp(val, s.ctrl[id].min, s.ctrl[id].max)
  ELSE IF id \in BooleanCtrls THEN (IF val # 0 THEN 1 ELSE 0)
  ELSE val

RECURSIVE ov64a40_set_ctrl(_, _, _)
RECURSIVE set_ctrl(_, _, _)
RECURSIVE v4l2_ctrl_modify_range(_, _, _, _, _)

(* set_ctrl + try_or_set_cluster: validate, refuse a grabbed control, skip  *)
(* an unchanged value, call the driver's s_ctrl and only when that          *)
(* succeeds make the new value the current one.                             *)
set_ctrl(s, id, val) ==
  LET v == validate_val(s, id, val) IN
  IF IsErr(validate_ret(s, id, val))
  THEN [s EXCEPT !.ret = validate_ret(s, id, val)]
  ELSE IF id \in s.grabbed THEN [s EXCEPT !.ret = "EBUSY"]
  ELSE IF v = s.ctrl[id].val THEN [s EXCEPT !.ret = OK]
  ELSE LET s1 == ov64a40_set_ctrl(s, id, v) IN
       IF IsErr(s1.ret) THEN s1
       ELSE [s1 EXCEPT !.ctrl[id].val = v]

(* __v4l2_ctrl_modify_range: an invalid range changes nothing; otherwise    *)
(* the range is stored and, when the current value falls outside it, the    *)
(* clamped value is set through set_ctrl.                                   *)
v4l2_ctrl_modify_range(s, id, min, max, def) ==
  IF IsErr(check_range(min, max, 1, def))
  THEN [s EXCEPT !.ret = "ERANGE"]
  ELSE LET s1 == [s EXCEPT !.ctrl[id].min = min, !.ctrl[id].max = max,
                           !.ctrl[id].def = def, !.ret = OK]
           new == Clamp(s.ctrl[id].val, min, max)
       IN  IF new # s.ctrl[id].val THEN set_ctrl(s1, id, new) ELSE s1

(* __v4l2_ctrl_s_ctrl *)
v4l2_ctrl_s_ctrl(s, id, val) == set_ctrl(s, id, val)

(* __v4l2_ctrl_grab *)
v4l2_ctrl_grab(s, id, grabbed) ==
  Note([s EXCEPT !.grabbed = IF grabbed THEN @ \cup {id} ELSE @ \ {id}],
       IF grabbed THEN "grab" ELSE "ungrab", id, 1)

(* v4l2_s_ctrl as reached from VIDIOC_S_CTRL: a read-only control refuses   *)
(* every write.                                                             *)
v4l2_s_ctrl(s, id, val) ==
  IF id \in ReadOnlyCtrls THEN [s EXCEPT !.ret = "EACCES"]
  ELSE set_ctrl(s, id, val)

(***************************************************************************)
(* ov64a40_link_freq_config                                                 *)
(***************************************************************************)
ov64a40_link_freq_config_by_id(s, link_freq_id) ==
  LET s0 == [s EXCEPT !.ret = OK]
      s1 == cci_multi_reg_write_err(s0, "ov64a40_pll_config")
  IN  IF link_freq_id = OV64A40_LINK_FREQ_360M_ID
      THEN cci_write_err(s1, "PLL1_MULTIPLIER", 120)
      ELSE s1

ov64a40_link_freq_config(s, link_freq_id) ==
  LET s0 == [s EXCEPT !.ret = OK]
      s1 == cci_multi_reg_write_err(s0, "ov64a40_pll_config")
      link_frequency == s.link_frequencies[link_freq_id + 1]
  IN  IF link_frequency = OV64A40_LINK_FREQ_360M
      THEN cci_write_err(s1, "PLL1_MULTIPLIER", 120)
      ELSE s1

(***************************************************************************)
(* ov64a40_set_ctrl: the s_ctrl operation; val is ctrl->val, the new value. *)
(***************************************************************************)
(* the range update that also moves the exposure to its new maximum *)
set_ctrl_vblank_range_raising(s, val) ==
  LET exp_max == ov64a40_modes[s.mode].height + val - OV64A40_EXPOSURE_MARGIN
  IN  v4l2_ctrl_s_ctrl(
        v4l2_ctrl_modify_range(s, "exposure", s.ctrl.exposure.min,
                               exp_max, exp_max),
        "exposure", exp_max)

set_ctrl_vblank_range(s, val) ==
  LET exp_max == ov64a40_modes[s.mode].height + val - OV64A40_EXPOSURE_MARGIN
      exp_val == IF s.ctrl.exposure.val < exp_max
                 THEN s.ctrl.exposure.val ELSE exp_max
  IN  v4l2_ctrl_modify_range(s, "exposure", s.ctrl.exposure.min,
                             exp_max, exp_val)

(* the switch that writes the gain as it is *)
set_ctrl_io_gain_unshifted(s, id, val) ==
  CASE id = "exposure" -> cci_write(s, "MEC_LONG_EXPO", val, "")
    [] id = "gain"     -> cci_write(s, "MEC_LONG_GAIN", val, "")
    [] id = "vblank"   ->
         LET vts == val + ov64a40_modes[s.mode].height
             s1  == cci_write_err(s, "TIMINGS_VTS_LOW", vts)
             s2  == cci_write_err(s1, "TIMINGS_VTS_MID", vts \div 256)
         IN  cci_write_err(s2, "TIMINGS_VTS_HIGH", vts \div 65536)
    [] id = "vflip"    ->
         cci_update_bits(s, "TIMING_CTRL_20", "VFLIP", val * 4)
    [] id = "hflip"    ->
         cci_update_bits(s, "TIMING_CTRL_21", "HFLIP",
                         IF val # 0 THEN 0 ELSE 1)
    [] id = "test_pattern" ->
         cci_write(s, "TEST_PATTERN", val, ov64a40_test_pattern_val[val + 1])
    [] id = "link_freq" -> ov64a40_link_freq_config(s, val)
    [] OTHER -> [s EXCEPT !.ret = "EINVAL"]

set_ctrl_io(s, id, val) ==
  CASE id = "exposure" -> cci_write(s, "MEC_LONG_EXPO", val, "")
    [] id = "gain"     -> cci_write(s, "MEC_LONG_GAIN", val * 2, "")
    [] id = "vblank"   ->
         LET vts == val + ov64a40_modes[s.mode].height
             s1  == cci_write_err(s, "TIMINGS_VTS_LOW", vts)
             s2  == cci_write_err(s1, "TIMINGS_VTS_MID", vts \div 256)
         IN  cci_write_err(s2, "TIMINGS_VTS_HIGH", vts \div 65536)
    [] id = "vflip"    ->
         cci_update_bits(s, "TIMING_CTRL_20", "VFLIP", val * 4)
    [] id = "hflip"    ->
         cci_update_bits(s, "TIMING_CTRL_21", "HFLIP",
                         IF val # 0 THEN 0 ELSE 1)
    [] id = "test_pattern" ->
         cci_write(s, "TEST_PATTERN", val, ov64a40_test_pattern_val[val + 1])
    [] id = "link_freq" -> ov64a40_link_freq_config(s, val)
    [] OTHER -> [s EXCEPT !.ret = "EINVAL"]

(* the handler that writes the register whatever the power state *)
ov64a40_set_ctrl_ignoring_pm(s, id, val) ==
  LET s1 == IF id = "vblank" THEN set_ctrl_vblank_range(s, val) ELSE s
      s3 == Note([s1 EXCEPT !.ret = OK, !.usage = @ + 1],
                 "pm_get_if_active", "", 1)
  IN  pm_runtime_put_autosuspend(set_ctrl_io(s3, id, val))

(* the handler that drops its reference before the register access *)
ov64a40_set_ctrl_putting_early(s, id, val) ==
  LET s1 == IF id = "vblank" THEN set_ctrl_vblank_range(s, val) ELSE s
      s2 == [s1 EXCEPT !.ret = OK]
  IN  IF ~s2.active
      THEN s2
      ELSE set_ctrl_io(pm_runtime_put_autosuspend(
                         Note([s2 EXCEPT !.usage = @ + 1],
                              "pm_get_if_active", "", 1)), id, val)

ov64a40_set_ctrl(s, id, val) ==
  LET s1 == IF id = "vblank" THEN set_ctrl_vblank_range(s, val) ELSE s
      (* int ret = 0: the result of the range update is discarded *)
      s2 == [s1 EXCEPT !.ret = OK]
  IN  IF ~s2.active
      THEN s2
      ELSE LET s3 == Note([s2 EXCEPT !.usage = @ + 1],
                          "pm_get_if_active", "", 1)
               s4 == set_ctrl_io(s3, id, val)
           IN  pm_runtime_put_autosuspend(s4)

(***************************************************************************)
(* ov64a40_program_geometry                                                 *)
(***************************************************************************)
ov64a40_program_geometry_past_the_crop(s) ==
  LET mode     == ov64a40_modes[s.mode]
      anacrop  == mode.analogue_crop
      digicrop == mode.digital_crop
      timings  == ov64a40_get_timings(s, s.ctrl.link_freq.val)
      s0  == [s EXCEPT !.ret = OK]
      s1  == cci_write_err(s0, "TIMING_CTRL0", anacrop.left)
      s2  == cci_write_err(s1, "TIMING_CTRL2", anacrop.top)
      s3  == cci_write_err(s2, "TIMING_CTRL4", anacrop.width + anacrop.left)
      s4  == cci_write_err(s3, "TIMING_CTRL6", anacrop.height + anacrop.top)
      s5  == cci_write_err(s4, "TIMING_CTRL10", digicrop.left)
      s6  == cci_write_err(s5, "TIMING_CTRL12", digicrop.top)
      s7  == cci_write_err(s6, "TIMING_CTRL8", digicrop.width)
      s8  == cci_write_err(s7, "TIMING_CTRLA", digicrop.height)
      s9  == cci_write_err(s8, "TIMING_CTRLC", timings.ppl)
  IN  cci_write_err(s9, "TIMING_CTRLE", timings.vts)

ov64a40_program_geometry(s) ==
  LET mode     == ov64a40_modes[s.mode]
      anacrop  == mode.analogue_crop
      digicrop == mode.digital_crop
      timings  == ov64a40_get_timings(s, s.ctrl.link_freq.val)
      s0  == [s EXCEPT !.ret = OK]
      s1  == cci_write_err(s0, "TIMING_CTRL0", anacrop.left)
      s2  == cci_write_err(s1, "TIMING_CTRL2", anacrop.top)
      s3  == cci_write_err(s2, "TIMING_CTRL4", anacrop.width + anacrop.left - 1)
      s4  == cci_write_err(s3, "TIMING_CTRL6", anacrop.height + anacrop.top - 1)
      s5  == cci_write_err(s4, "TIMING_CTRL10", digicrop.left)
      s6  == cci_write_err(s5, "TIMING_CTRL12", digicrop.top)
      s7  == cci_write_err(s6, "TIMING_CTRL8", digicrop.width)
      s8  == cci_write_err(s7, "TIMING_CTRLA", digicrop.height)
      s9  == cci_write_err(s8, "TIMING_CTRLC", timings.ppl)
  IN  cci_write_err(s9, "TIMING_CTRLE", timings.vts)

(* OV64A40_SKIPPING_CONFIG(odd, even): both increments in one register *)
OV64A40_SKIPPING_CONFIG(odd, even) == odd * 16 + even

(***************************************************************************)
(* ov64a40_program_subsampling                                              *)
(***************************************************************************)
ov64a40_program_subsampling(s) ==
  LET subsampling == ov64a40_modes[s.mode].subsampling
      s0 == [s EXCEPT !.ret = OK]
      s1 == cci_write_err(s0, "TIMING_CTRL14",
              OV64A40_SKIPPING_CONFIG(subsampling.x_odd_inc,
                                      subsampling.x_even_inc))
      s2 == cci_write_err(s1, "TIMING_CTRL15",
              OV64A40_SKIPPING_CONFIG(subsampling.y_odd_inc,
                                      subsampling.y_even_inc))
      s3 == cci_update_bits_err(s2, "TIMING_CTRL_20", "VBIN",
              IF subsampling.vbin THEN 1 ELSE 0)
  IN  cci_update_bits_err(s3, "TIMING_CTRL_21", "HBIN_CONF",
              IF subsampling.hbin THEN 1 ELSE 0)

(***************************************************************************)
(* __v4l2_ctrl_handler_setup: s_ctrl of every control that is not           *)
(* read-only, with its current value, in creation order, stopping at the    *)
(* first error.                                                             *)
(***************************************************************************)
RECURSIVE handler_setup_from(_, _)
handler_setup_from(s, i) ==
  IF i > Len(HandlerOrder) THEN s
  ELSE LET id == HandlerOrder[i] IN
       IF id \in ReadOnlyCtrls THEN handler_setup_from(s, i + 1)
       ELSE LET s1 == ov64a40_set_ctrl(s, id, s.ctrl[id].val) IN
            IF IsErr(s1.ret) THEN s1 ELSE handler_setup_from(s1, i + 1)

v4l2_ctrl_handler_setup(s) == handler_setup_from([s EXCEPT !.ret = OK], 1)

(***************************************************************************)
(* ov64a40_start_streaming                                                  *)
(***************************************************************************)
DIV_ROUND_UP(n, d) == (n + d - 1) \div d

(* unsigned int arithmetic, a value held as << high 16 bits, low 16 bits >>: *)
(* a * e modulo 2^32, for a below 2^15 and e below 2^24                      *)
U32Mul(a, e) ==
  LET p0 == a * (e % 65536)
  IN  << (a * (e \div 65536) + p0 \div 65536) % 65536, p0 % 65536 >>

(* n + k modulo 2^32, for a small k *)
U32Add(n, k) ==
  << (n[1] + (n[2] + k) \div 65536) % 65536, (n[2] + k) % 65536 >>

(* n / d, for a small d *)
U32Div(n, d) == (n[1] \div d) * 65536 + ((n[1] % d) * 65536 + n[2]) \div d

(* the settle delay: the product and its DIV_ROUND_UP are unsigned int *)
start_delay(s) ==
  LET timings == ov64a40_get_timings(s, s.ctrl.link_freq.val)
      d0 == DIV_ROUND_UP(4096, (OV64A40_XCLK_FREQ \div 1000) \div 1000)
      d1 == IF d0 > 150 THEN d0 ELSE 150
      n  == U32Mul(timings.ppl * 4, s.ctrl.exposure.val)
      d  == (OV64A40_PIXEL_RATE \div 1000) \div 1000
  IN  d1 + U32Div(U32Add(n, d - 1), d)

(* the error path that keeps the reference *)
error_power_off_keeping_the_reference(s) == s

error_power_off(s) ==
  LET r == s.ret IN [pm_runtime_put_autosuspend(s) EXCEPT !.ret = r]

(* the grab that forgets hflip *)
start_grab_without_hflip(s) ==
  v4l2_ctrl_grab(v4l2_ctrl_grab(s, "link_freq", TRUE), "vflip", TRUE)

start_grab(s) ==
  LET g1 == v4l2_ctrl_grab(s, "link_freq", TRUE)
      g2 == v4l2_ctrl_grab(g1, "vflip", TRUE)
  IN  v4l2_ctrl_grab(g2, "hflip", TRUE)

(* the steps of ov64a40_start_streaming, each on the result of the one      *)
(* before it                                                                *)
start_grabbed(g) == [g EXCEPT !.delay = start_delay(g), !.ret = OK]

start_after_smia(f) ==
  IF IsErr(f.ret) THEN error_power_off(f) ELSE start_grabbed(start_grab(f))

start_after_setup(e) ==
  IF IsErr(e.ret) THEN error_power_off(e)
  ELSE start_after_smia(cci_write(e, "SMIA", 1, ""))

start_after_subsampling(d) ==
  IF IsErr(d.ret) THEN error_power_off(d)
  ELSE start_after_setup(v4l2_ctrl_handler_setup(d))

start_after_geometry(c) ==
  IF IsErr(c.ret) THEN error_power_off(c)
  ELSE start_after_subsampling(ov64a40_program_subsampling(c))

start_after_mode(b) ==
  IF IsErr(b.ret) THEN error_power_off(b)
  ELSE start_after_geometry(ov64a40_program_geometry(b))

start_after_init(a) ==
  IF IsErr(a.ret) THEN error_power_off(a)
  ELSE start_after_mode(
         cci_multi_reg_write(a, ov64a40_modes[a.mode].reglist))

start_after_power(p) ==
  IF IsErr(p.ret) THEN p
  ELSE start_after_init(cci_multi_reg_write(p, "ov64a40_init"))

ov64a40_start_streaming(s) == start_after_power(pm_runtime_resume_and_get(s))

(***************************************************************************)
(* ov64a40_stop_streaming                                                   *)
(***************************************************************************)
(* the stop that gives up when clearing the streaming bit fails *)
ov64a40_stop_streaming_bailing_out(s) ==
  LET a == cci_update_bits(s, "SMIA", "BIT0", 0) IN
  IF IsErr(a.ret) THEN a
  ELSE LET b  == pm_runtime_put_autosuspend(a)
           g1 == v4l2_ctrl_grab(b, "link_freq", FALSE)
           g2 == v4l2_ctrl_grab(g1, "vflip", FALSE)
           g3 == v4l2_ctrl_grab(g2, "hflip", FALSE)
       IN  [g3 EXCEPT !.ret = OK]

(* the stop that hands the result of clearing the streaming bit back *)
ov64a40_stop_streaming_returning_ret(s) ==
  LET a  == cci_update_bits(s, "SMIA", "BIT0", 0)
      b  == pm_runtime_put_autosuspend(a)
      g1 == v4l2_ctrl_grab(b, "link_freq", FALSE)
      g2 == v4l2_ctrl_grab(g1, "vflip", FALSE)
      g3 == v4l2_ctrl_grab(g2, "hflip", FALSE)
  IN  [g3 EXCEPT !.ret = a.ret]

ov64a40_stop_streaming(s) ==
  LET a  == cci_update_bits(s, "SMIA", "BIT0", 0)
      b  == pm_runtime_put_autosuspend(a)
      g1 == v4l2_ctrl_grab(b, "link_freq", FALSE)
      g2 == v4l2_ctrl_grab(g1, "vflip", FALSE)
      g3 == v4l2_ctrl_grab(g2, "hflip", FALSE)
  IN  [g3 EXCEPT !.ret = OK]

(***************************************************************************)
(* ov64a40_mbus_code / ov64a40_update_pad_fmt                               *)
(***************************************************************************)
ov64a40_mbus_code(s) ==
  ov64a40_mbus_codes[s.ctrl.hflip.val * 2 + s.ctrl.vflip.val + 1]

ov64a40_update_pad_fmt_of_crop(s, mode) ==
  [code |-> ov64a40_mbus_code(s),
   width |-> ov64a40_modes[mode].analogue_crop.width,
   height |-> ov64a40_modes[mode].analogue_crop.height]

ov64a40_update_pad_fmt(s, mode) ==
  [code |-> ov64a40_mbus_code(s),
   width |-> ov64a40_modes[mode].width,
   height |-> ov64a40_modes[mode].height]

(***************************************************************************)
(* v4l2_find_nearest_size (v4l2-common.c): the scan keeps the first entry   *)
(* of the smallest error, the sum of the absolute differences of width and  *)
(* height, and stops at an exact match.                                     *)
(***************************************************************************)
Abs(x) == IF x < 0 THEN -x ELSE x

SizeError(m, width, height) ==
  Abs(ov64a40_modes[m].width - width) + Abs(ov64a40_modes[m].height - height)

RECURSIVE find_nearest_from(_, _, _, _, _)
(* the body of the scan for entry i, whose error is error *)
find_nearest_at(i, error, best, min_error, width, height) ==
  IF min_error >= 0 /\ error >= min_error
  THEN find_nearest_from(i + 1, best, min_error, width, height)
  ELSE IF error = 0 THEN i
  ELSE find_nearest_from(i + 1, i, error, width, height)

find_nearest_from(i, best, min_error, width, height) ==
  IF i > NumModes THEN best
  ELSE find_nearest_at(i, SizeError(i, width, height), best, min_error,
                       width, height)

(* min_error starts at U32_MAX, written -1 here *)
v4l2_find_nearest_size(width, height) ==
  find_nearest_from(1, 0, -1, width, height)

(***************************************************************************)
(* ov64a40_set_format.  format_code is the code of the format held by the   *)
(* state the caller passed: the active state's, or a try state's.           *)
(***************************************************************************)
set_format_limits(s, mode) ==
  LET s1 == [s EXCEPT !.mode = mode,
                      !.crop = ov64a40_modes[mode].analogue_crop]
      timings    == ov64a40_get_timings(s1, s1.ctrl.link_freq.val)
      vblank_max == OV64A40_VTS_MAX - ov64a40_modes[mode].height
      vblank_def == timings.vts - ov64a40_modes[mode].height
      s2 == v4l2_ctrl_modify_range(s1, "vblank", OV64A40_VBLANK_MIN,
                                   vblank_max, vblank_def)
      s3 == v4l2_ctrl_s_ctrl(s2, "vblank", vblank_def)
      exp_max == timings.vts - OV64A40_EXPOSURE_MARGIN
      s4 == v4l2_ctrl_modify_range(s3, "exposure", OV64A40_EXPOSURE_MIN,
                                   exp_max, OV64A40_EXPOSURE_MIN)
      hblank_val == timings.ppl * 4 - ov64a40_modes[mode].width
  IN  v4l2_ctrl_modify_range(s4, "hblank", hblank_val, hblank_val, hblank_val)

(* the rest of ov64a40_set_format, for the mode the scan found *)
set_format_to(s, which, mode, format_code) ==
  LET newfmt == ov64a40_update_pad_fmt(s, mode)
      r      == [s EXCEPT !.outfmt = newfmt, !.ret = OK]
  IN  IF s.mode = mode /\ format_code = newfmt.code THEN r
      ELSE IF which = "ACTIVE"
      THEN [set_format_limits(r, mode) EXCEPT !.fmt = newfmt, !.ret = OK]
      ELSE r

ov64a40_set_format(s, which, width, height, format_code) ==
  set_format_to(s, which, v4l2_find_nearest_size(width, height), format_code)

(***************************************************************************)
(* ov64a40_init_controls, after ov64a40_probe chose ov64a40_modes[0].       *)
(***************************************************************************)
ov64a40_init_controls(lfs) ==
  LET ov         == [link_frequencies |-> lfs, mode |-> 1]
      timings    == ov64a40_get_timings(ov, 0)
      exp_max    == timings.vts - OV64A40_EXPOSURE_MARGIN
      hblank_val == timings.ppl * 4 - ov64a40_modes[1].width
      vblank_def == timings.vts - ov64a40_modes[1].height
      vblank_max == OV64A40_VTS_MAX - ov64a40_modes[1].height
  IN  [pixel_rate   |-> Ctrl(OV64A40_PIXEL_RATE, OV64A40_PIXEL_RATE,
                             OV64A40_PIXEL_RATE, OV64A40_PIXEL_RATE),
       link_freq    |-> Ctrl(0, 0, Len(lfs) - 1, 0),
       test_pattern |-> Ctrl(0, 0, Len(ov64a40_test_pattern_val) - 1, 0),
       exposure     |-> Ctrl(OV64A40_EXPOSURE_MIN, OV64A40_EXPOSURE_MIN,
                             exp_max, OV64A40_EXPOSURE_MIN),
       hblank       |-> Ctrl(hblank_val, hblank_val, hblank_val, hblank_val),
       vblank       |-> Ctrl(vblank_def, OV64A40_VBLANK_MIN, vblank_max,
                             vblank_def),
       gain         |-> Ctrl(OV64A40_ANA_GAIN_DEFAULT, OV64A40_ANA_GAIN_MIN,
                             OV64A40_ANA_GAIN_MAX, OV64A40_ANA_GAIN_DEFAULT),
       hflip        |-> Ctrl(0, 0, 1, 0),
       vflip        |-> Ctrl(0, 0, 1, 0)]

(* OV64A40_PIXEL_ARRAY_{LEFT,TOP,WIDTH,HEIGHT}: the crop of ov64a40_init_cfg *)
PixelArray == Rect(0, 0, 9248, 6944)

(* ov64a40_parse_dt accepts one or two link frequencies, each 360 or 456 MHz *)
LinkFreqValues == {OV64A40_LINK_FREQ_456M, OV64A40_LINK_FREQ_360M}
LinkFreqLists ==
  {<<a>> : a \in LinkFreqValues} \cup
  {<<a, b>> : a \in LinkFreqValues, b \in LinkFreqValues}

(***************************************************************************)
(* ov64a40_probe.  dt is the endpoint of the device tree, chip_id what the  *)
(* chip answers, fault the one step of the probe that fails for a reason    *)
(* outside the driver ("none" when none does); such a step returns the      *)
(* error "E" \o fault.  Each probe_after_X takes the result r of the step   *)
(* that follows X.                                                          *)
(***************************************************************************)
OV64A40_CHIP_ID == 5661761

Dt(lanes, freqs) == [num_data_lanes |-> lanes, link_frequencies |-> freqs]

(* the parse that takes any frequency *)
ov64a40_parse_dt_any_frequency(dt, fault) ==
  IF fault = "endpoint" THEN [ret |-> "EINVAL", link_frequencies |-> << >>]
  ELSE IF fault = "endpoint_parse"
  THEN [ret |-> "E" \o fault, link_frequencies |-> << >>]
  ELSE IF dt.num_data_lanes # 2
  THEN [ret |-> "EINVAL", link_frequencies |-> << >>]
  ELSE IF Len(dt.link_frequencies) = 0
  THEN [ret |-> "EINVAL", link_frequencies |-> << >>]
  ELSE IF Len(dt.link_frequencies) > 2
  THEN [ret |-> "EINVAL", link_frequencies |-> << >>]
  ELSE IF fault = "kcalloc" THEN [ret |-> "ENOMEM", link_frequencies |-> << >>]
  ELSE [ret |-> OK, link_frequencies |-> dt.link_frequencies]

ov64a40_parse_dt(dt, fault) ==
  IF fault = "endpoint" THEN [ret |-> "EINVAL", link_frequencies |-> << >>]
  ELSE IF fault = "endpoint_parse"
  THEN [ret |-> "E" \o fault, link_frequencies |-> << >>]
  ELSE IF dt.num_data_lanes # 2
  THEN [ret |-> "EINVAL", link_frequencies |-> << >>]
  ELSE IF Len(dt.link_frequencies) = 0
  THEN [ret |-> "EINVAL", link_frequencies |-> << >>]
  ELSE IF Len(dt.link_frequencies) > 2
  THEN [ret |-> "EINVAL", link_frequencies |-> << >>]
  ELSE IF fault = "kcalloc" THEN [ret |-> "ENOMEM", link_frequencies |-> << >>]
  ELSE IF \E i \in 1..Len(dt.link_frequencies) :
            /\ dt.link_frequencies[i] # OV64A40_LINK_FREQ_360M
            /\ dt.link_frequencies[i] # OV64A40_LINK_FREQ_456M
  THEN [ret |-> "EINVAL", link_frequencies |-> << >>]
  ELSE [ret |-> OK, link_frequencies |-> dt.link_frequencies]

(* ov64a40_power_on: the clock, then the regulators, then the reset line *)
ov64a40_power_on(fault) ==
  IF fault \in {"clk_prepare_enable", "regulator_bulk_enable"}
  THEN "E" \o fault ELSE OK

(* the identification that does not compare *)
ov64a40_identify_unchecked(chip_id, fault) ==
  IF fault = "cci_read" THEN "EIO" ELSE OK

ov64a40_identify(chip_id, fault) ==
  IF fault = "cci_read" THEN "EIO"
  ELSE IF chip_id # OV64A40_CHIP_ID THEN "ENODEV"
  ELSE OK

(* what a probe leaves: its result, the power and runtime-PM state of the   *)
(* device, what it registered, the list it kept and the steps it took       *)
Probed(r, on, n, pm, hdl, sd, lfs, steps) ==
  [ret |-> r, active |-> on, usage |-> n, pm_enabled |-> pm,
   ctrl_handler |-> hdl, subdev |-> sd, link_frequencies |-> lfs,
   log |-> steps]

Step(name, ok) == Event(name, "", "", 0, "", ok)

(* from pm_runtime_set_active on; error_poweroff and the labels above it    *)
(* free what was set up, power the device off and mark it suspended         *)
probe_after_identify(lfs, fault, steps) ==
  IF fault \in {"init_controls", "media_entity_pads_init",
                "v4l2_subdev_init_finalize", "register_subdev"}
  THEN Probed("E" \o fault, FALSE, 1, TRUE, FALSE, FALSE, lfs,
              steps \o << Step(fault, FALSE), Step("power_off", TRUE) >>)
  ELSE Probed(OK, TRUE, 0, TRUE, TRUE, TRUE, lfs,
              steps \o << Step("init_controls", TRUE),
                          Step("register_subdev", TRUE) >>)

probe_after_power_on(lfs, chip_id, fault, r, steps) ==
  IF IsErr(r)
  THEN Probed(r, FALSE, 0, FALSE, FALSE, FALSE, lfs,
              steps \o << Step("identify", FALSE), Step("power_off", TRUE) >>)
  ELSE probe_after_identify(lfs, fault, steps \o << Step("identify", TRUE) >>)

probe_after_parse_dt(d, chip_id, fault, r, steps) ==
  IF IsErr(r)
  THEN Probed(r, FALSE, 0, FALSE, FALSE, FALSE, d.link_frequencies,
              steps \o << Step("power_on", FALSE) >>)
  ELSE probe_after_power_on(d.link_frequencies, chip_id, fault,
                            ov64a40_identify(chip_id, fault),
                            steps \o << Step("power_on", TRUE) >>)

probe_after_resources(d, chip_id, fault) ==
  IF IsErr(d.ret)
  THEN Probed(d.ret, FALSE, 0, FALSE, FALSE, FALSE, << >>,
              << Step("parse_dt", FALSE) >>)
  ELSE probe_after_parse_dt(d, chip_id, fault, ov64a40_power_on(fault),
                            << Step("parse_dt", TRUE) >>)

ov64a40_probe(dt, chip_id, fault) ==
  IF fault \in {"devm_cci_regmap_init_i2c", "devm_clk_get", "clk_get_rate",
                "get_regulators", "devm_gpiod_get_optional"}
  THEN Probed("E" \o fault, FALSE, 0, FALSE, FALSE, FALSE, << >>, << >>)
  ELSE probe_after_resources(ov64a40_parse_dt(dt, fault), chip_id, fault)

(* the steps of a probe that can fail for a reason outside the driver *)
ProbeFaults ==
  {"none", "devm_cci_regmap_init_i2c", "devm_clk_get", "clk_get_rate",
   "get_regulators", "devm_gpiod_get_optional", "endpoint", "endpoint_parse",
   "kcalloc", "clk_prepare_enable", "regulator_bulk_enable", "cci_read",
   "init_controls", "media_entity_pads_init", "v4l2_subdev_init_finalize",
   "register_subdev"}

(***************************************************************************)
(* The state.                                                               *)
(***************************************************************************)
VARIABLES
  link_frequencies,  \* ov64a40->link_frequencies
  mode,              \* ov64a40->mode, an index into ov64a40_modes
  ctrl,              \* the controls of ov64a40->ctrl_handler
  grabbed,           \* controls with V4L2_CTRL_FLAG_GRABBED
  usage,             \* runtime-PM usage count of the device
  active,            \* runtime-PM status is RPM_ACTIVE
  fmt,               \* the active state's pad format
  crop,              \* the active state's pad crop
  streaming,         \* the last set_stream call that succeeded was a start
  pc,                \* "ready", or "returned" right after a call
  op,                \* the call that returned
  ret,               \* its return value
  log,               \* the events it issued
  outfmt,            \* the format ov64a40_set_format handed back
  delay,             \* the settle delay of ov64a40_start_streaming
  timings,           \* the timings ov64a40_get_timings handed back
  holders,           \* the callers that hold the lock of their operation
  probed,            \* what ov64a40_probe was given and what it registered
  trail              \* what the caller noted before the calls it is pairing

vars == << link_frequencies, mode, ctrl, grabbed, usage, active, fmt, crop,
           streaming, pc, op, ret, log, outfmt, delay, timings, holders,
           probed, trail >>

dev == << link_frequencies, mode, ctrl, grabbed, usage, active, fmt, crop,
          streaming, probed >>

NoFmt == [code |-> "", width |-> 0, height |-> 0]
NoTimings == Timings(0, 0)
Op(name, id, val, w, h) ==
  [name |-> name, id |-> id, val |-> val, w |-> w, h |-> h]
NoOp == Op("", "", 0, 0, 0)

(* the handler's view of the device at entry *)
Enter(fail, pwr) ==
  [link_frequencies |-> link_frequencies, mode |-> mode, ctrl |-> ctrl,
   grabbed |-> grabbed, usage |-> usage, active |-> active, fmt |-> fmt,
   crop |-> crop, log |-> << >>, nio |-> 0, failAt |-> fail,
   pwrFail |-> pwr, ret |-> OK, outfmt |-> NoFmt, delay |-> 0]

(* the control values, and the notes of a caller that pairs a stream start *)
(* with the stop after it, or a vblank write of the maximum, made at the    *)
(* default, with the write of the default after it                          *)
Vals(c) == [id \in CtrlIds |-> c[id].val]
NoTrail == [after |-> "", vals |-> [id \in CtrlIds |-> 0], exp_max |-> 0]

TrailAfter(s, o) ==
  IF o.name = "start" /\ ~IsErr(s.ret)
  THEN [after |-> "start", vals |-> Vals(ctrl), exp_max |-> ctrl.exposure.max]
  ELSE IF o.name = "stop" /\ trail.after = "start"
  THEN [trail EXCEPT !.after = "start,stop"]
  ELSE IF /\ o.name = "s_ctrl" /\ o.id = "vblank" /\ ~IsErr(s.ret)
          /\ o.val = ctrl.vblank.max /\ ctrl.vblank.val = ctrl.vblank.def
  THEN [after |-> "max", vals |-> Vals(ctrl), exp_max |-> ctrl.exposure.max]
  ELSE IF /\ o.name = "s_ctrl" /\ o.id = "vblank" /\ ~IsErr(s.ret)
          /\ o.val = ctrl.vblank.def /\ trail.after = "max"
  THEN [trail EXCEPT !.after = "max,def"]
  ELSE NoTrail

(* the device as the handler leaves it *)
Leave(s, o) ==
  /\ trail' = TrailAfter(s, o)
  /\ mode' = s.mode
  /\ ctrl' = s.ctrl
  /\ grabbed' = s.grabbed
  /\ usage' = s.usage
  /\ active' = s.active
  /\ fmt' = s.fmt
  /\ crop' = s.crop
  /\ ret' = s.ret
  /\ log' = s.log
  /\ outfmt' = s.outfmt
  /\ delay' = s.delay
  /\ op' = o
  /\ pc' = "returned"
  /\ UNCHANGED << link_frequencies, timings, holders, probed >>

(* what ov64a40_probe was given, and whether the control handler and the    *)
(* sub-device are registered                                                *)
ProbeState(dt, chip_id, fault, hdl, sd) ==
  [dt |-> dt, chip_id |-> chip_id, fault |-> fault, ctrl_handler |-> hdl,
   subdev |-> sd]
ProbedOk(lfs) == ProbeState(Dt(2, lfs), OV64A40_CHIP_ID, "none", TRUE, TRUE)

InitWith(lists) ==
  /\ link_frequencies \in lists
  /\ mode = 1
  /\ ctrl = ov64a40_init_controls(link_frequencies)
  /\ grabbed = {}
  /\ usage = 0
  /\ active = TRUE
  /\ fmt = ov64a40_update_pad_fmt([ctrl |-> ctrl], 1)
  /\ crop = PixelArray
  /\ streaming = FALSE
  /\ pc = "ready"
  /\ op = NoOp
  /\ ret = OK
  /\ log = << >>
  /\ outfmt = NoFmt
  /\ delay = 0
  /\ timings = NoTimings
  /\ holders = {}
  /\ probed = ProbedOk(link_frequencies)
  /\ trail = NoTrail

(***************************************************************************)
(* Bounds and inputs.                                                       *)
(***************************************************************************)
(* Only the first MaxFail bus transactions of a call may fail; a stream     *)
(* start issues fewer than that.                                            *)
MaxFail == 30

(* the bus transactions that can fail in a call issuing n of them, when     *)
(* the first mf may fail                                                    *)
FailPoints(n, mf) == {k \in 0..mf : k <= n}

(* values a caller writes to a control *)
CtrlInputs(id) ==
  CASE id = "exposure"     -> {ctrl.exposure.min, ctrl.exposure.max}
    [] id = "vblank"       -> {ctrl.vblank.def, ctrl.vblank.max}
    [] id = "gain"         -> {OV64A40_ANA_GAIN_MIN, OV64A40_ANA_GAIN_MAX}
    [] id = "test_pattern" -> {0, 4}
    [] id = "link_freq"    -> {0, 1}
    [] id = "hflip"        -> {0, 1}
    [] id = "vflip"        -> {0, 1}
    [] id = "hblank"       -> {ctrl.hblank.val, 0}
    [] id = "pixel_rate"   -> {OV64A40_PIXEL_RATE}

(* the size of catalogue entry m *)
SizeOf(m) == <<ov64a40_modes[m].width, ov64a40_modes[m].height>>

(***************************************************************************)
(* The calls.  Stream start and stop alternate, as the V4L2 core calls      *)
(* s_stream.  A call is one step; the caller then takes the result.         *)
(***************************************************************************)
(* ov64a40_set_stream *)
ov64a40_set_stream(s, enable) ==
  IF enable THEN ov64a40_start_streaming(s) ELSE ov64a40_stop_streaming(s)

StartStreaming(mf) ==
  /\ pc = "ready"
  /\ ~streaming
  /\ \E pwr \in (IF active THEN {FALSE} ELSE BOOLEAN) :
     \E fail \in FailPoints(ov64a40_set_stream(Enter(0, pwr), TRUE).nio, mf) :
       LET s == ov64a40_set_stream(Enter(fail, pwr), TRUE) IN
         /\ Leave(s, Op("start", "", 1, 0, 0))
         /\ streaming' = ~IsErr(s.ret)

StopStreaming(mf) ==
  /\ pc = "ready"
  /\ streaming
  /\ \E fail \in FailPoints(ov64a40_set_stream(Enter(0, FALSE), FALSE).nio, mf) :
       LET s == ov64a40_set_stream(Enter(fail, FALSE), FALSE) IN
         /\ Leave(s, Op("stop", "", 0, 0, 0))
         /\ streaming' = FALSE

(* VIDIOC_S_CTRL on one of the controls ids *)
SetCtrl(ids, mf) ==
  /\ pc = "ready"
  /\ \E id \in ids :
     \E val \in CtrlInputs(id) :
     \E fail \in FailPoints(v4l2_s_ctrl(Enter(0, FALSE), id, val).nio, mf) :
       LET s == v4l2_s_ctrl(Enter(fail, FALSE), id, val) IN
         /\ Leave(s, Op("s_ctrl", id, val, 0, 0))
         /\ UNCHANGED streaming

(* VIDIOC_SUBDEV_S_FMT on the active state, for one of the sizes *)
SetFormatActive(sizes, mf) ==
  /\ pc = "ready"
  /\ \E size \in sizes :
     \E fail \in FailPoints(ov64a40_set_format(Enter(0, FALSE), "ACTIVE",
                              size[1], size[2], fmt.code).nio, mf) :
       LET s == ov64a40_set_format(Enter(fail, FALSE), "ACTIVE",
                                   size[1], size[2], fmt.code) IN
         /\ Leave(s, Op("set_fmt", "ACTIVE", 0, size[1], size[2]))
         /\ UNCHANGED streaming

(* VIDIOC_SUBDEV_S_FMT on a try state, whose format is the caller's *)
SetFormatTry(sizes) ==
  /\ pc = "ready"
  /\ \E size \in sizes :
     \E c \in 1..Len(ov64a40_mbus_codes) :
       LET s == ov64a40_set_format(Enter(0, FALSE), "TRY", size[1], size[2],
                                   ov64a40_mbus_codes[c]) IN
         /\ Leave(s, Op("set_fmt", "TRY", c, size[1], size[2]))
         /\ UNCHANGED streaming

(* the autosuspend timer expires on an unused device: ov64a40_power_off *)
Autosuspend ==
  /\ pc = "ready"
  /\ active
  /\ usage = 0
  /\ active' = FALSE
  /\ UNCHANGED << link_frequencies, mode, ctrl, grabbed, usage, fmt, crop,
                  streaming, pc, op, ret, log, outfmt, delay, timings,
                  holders, probed, trail >>

(* a caller resolves the timings of the mode in use for one of the link     *)
(* frequencies of the list: ov64a40_get_timings                             *)
GetTimings ==
  /\ pc = "ready"
  /\ \E link_freq_index \in 0..(Len(link_frequencies) - 1) :
       /\ timings' = ov64a40_get_timings(Enter(0, FALSE), link_freq_index)
       /\ op' = Op("get_timings", "", link_freq_index, 0, 0)
  /\ pc' = "returned"
  /\ UNCHANGED << dev, ret, log, outfmt, delay, holders, trail >>

(* The locks.  ov64a40_set_stream takes the lock of the active state, the   *)
(* subdev core holds it around ov64a40_set_format on the active state, and  *)
(* the control framework holds the handler's lock around s_ctrl.            *)
ctrl_handler_lock == "ctrl_handler.lock"

state_lock_of_subdev == "sd.active_state.lock"

state_lock == ctrl_handler_lock

Callers == {"stream", "fmt", "ctrl"}
LockOf(c) == IF c = "ctrl" THEN ctrl_handler_lock ELSE state_lock

(* mutex_lock: v4l2_subdev_lock_and_get_active_state, v4l2_ctrl_lock *)
Acquire(c) ==
  /\ pc = "ready"
  /\ c \notin holders
  /\ \A h \in holders : LockOf(h) # LockOf(c)
  /\ holders' = holders \cup {c}
  /\ UNCHANGED << dev, pc, op, ret, log, outfmt, delay, timings, trail >>

(* mutex_unlock: v4l2_subdev_unlock_state, v4l2_ctrl_unlock *)
Release(c) ==
  /\ pc = "ready"
  /\ c \in holders
  /\ holders' = holders \ {c}
  /\ UNCHANGED << dev, pc, op, ret, log, outfmt, delay, timings, trail >>

(* the driver core binds the device: ov64a40_probe *)
Probe ==
  /\ pc = "unbound"
  /\ LET p == ov64a40_probe(probed.dt, probed.chip_id, probed.fault) IN
       /\ ret' = p.ret
       /\ log' = p.log
       /\ active' = p.active
       /\ usage' = p.usage
       /\ probed' = [probed EXCEPT !.ctrl_handler = p.ctrl_handler,
                                   !.subdev = p.subdev]
       /\ link_frequencies' = p.link_frequencies
       /\ IF IsErr(p.ret)
          THEN UNCHANGED << mode, ctrl, fmt, crop >>
          ELSE /\ mode' = 1
               /\ ctrl' = ov64a40_init_controls(p.link_frequencies)
               /\ fmt' = ov64a40_update_pad_fmt(
                           [ctrl |-> ov64a40_init_controls(p.link_frequencies)], 1)
               /\ crop' = PixelArray
  /\ op' = Op("probe", "", 0, 0, 0)
  /\ pc' = "returned"
  /\ UNCHANGED << grabbed, streaming, outfmt, delay, timings, holders, trail >>

(* the caller takes the result; a device whose probe failed stays unbound   *)
(* and takes no call                                                        *)
Return ==
  /\ pc = "returned"
  /\ pc' = IF op.name = "probe" /\ IsErr(ret) THEN "failed" ELSE "ready"
  /\ op' = NoOp
  /\ ret' = OK
  /\ log' = << >>
  /\ outfmt' = NoFmt
  /\ delay' = 0
  /\ timings' = NoTimings
  /\ trail' = IF trail.after \in {"start", "max"} THEN trail ELSE NoTrail
  /\ UNCHANGED << dev, holders >>

(***************************************************************************)
(* Spec: the streaming sequencer and the controls it replays and grabs, on  *)
(* catalogue entry 0, with bus failures.                                    *)
(***************************************************************************)
SeqLists == {<< OV64A40_LINK_FREQ_456M, OV64A40_LINK_FREQ_360M >>,
             << OV64A40_LINK_FREQ_360M >>}
SeqCtrls == CtrlIds

Next ==
  \/ StartStreaming(MaxFail)
  \/ StopStreaming(MaxFail)
  \/ SetCtrl(SeqCtrls, MaxFail)
  \/ SetFormatTry({SizeOf(1)})
  \/ Autosuspend
  \/ Return

Spec == InitWith(SeqLists) /\ [][Next]_vars

(***************************************************************************)
(* SpecModes: format negotiation over the whole catalogue and every list    *)
(* of link frequencies, with the controls that follow the mode, on a        *)
(* working bus, until and after the device autosuspends.                    *)
(***************************************************************************)
ModeLists == LinkFreqLists
ModeCtrls == {"link_freq", "exposure", "vblank", "hblank"}
ModeSizes == {SizeOf(m) : m \in 1..NumModes}

NextModes ==
  \/ SetFormatActive(ModeSizes, 0)
  \/ SetCtrl(ModeCtrls, 0)
  \/ Autosuspend
  \/ Return

SpecModes == InitWith(ModeLists) /\ [][NextModes]_vars

(***************************************************************************)
(* SpecSizes: negotiation of the active format for requested sizes on and   *)
(* between the catalogue entries.                                           *)
(***************************************************************************)
SizeLists == {<< OV64A40_LINK_FREQ_456M >>}

(* sizes at the same distance of two or three catalogue entries *)
TiedSizes == {<<8152, 6944>>, <<5048, 6000>>, <<7576, 2424>>, <<2600, 3472>>,
              <<2864, 3208>>, <<2864, 2160>>, <<2000, 1524>>}

ReqSizes == ModeSizes \cup TiedSizes \cup
            {<<1, 1>>, <<16384, 16384>>, <<9000, 6800>>, <<3000, 2000>>}

NextSizes ==
  \/ SetFormatActive(ReqSizes, 0)
  \/ Return

SpecSizes == InitWith(SeqLists) /\ [][NextSizes]_vars

(***************************************************************************)
(* SpecTimings: the timings of every catalogue entry, resolved for every    *)
(* index of every list of link frequencies the device tree can give.        *)
(***************************************************************************)
NextTimings ==
  \/ SetFormatActive(ModeSizes, 0)
  \/ GetTimings
  \/ Return

SpecTimings == InitWith(LinkFreqLists) /\ [][NextTimings]_vars

(***************************************************************************)
(* SpecLock: three callers, one starting and stopping the stream, one       *)
(* negotiating the active format and one writing controls, each running     *)
(* its operation under the lock the code or the core takes for it.          *)
(***************************************************************************)
LockCtrls == {"vblank", "exposure"}
LockSizes == {SizeOf(1), SizeOf(2)}

NextLock ==
  \/ \E c \in Callers : Acquire(c)
  \/ \E c \in Callers : Release(c)
  \/ "stream" \in holders /\ StartStreaming(0)
  \/ "stream" \in holders /\ StopStreaming(0)
  \/ "fmt" \in holders /\ SetFormatActive(LockSizes, 0)
  \/ "ctrl" \in holders /\ SetCtrl(LockCtrls, 0)
  \/ Return

SpecLock == InitWith(SizeLists) /\ [][NextLock]_vars

(***************************************************************************)
(* SpecGeometry: stream starts on every catalogue entry and both link       *)
(* frequencies, with bus failures during the start.                         *)
(***************************************************************************)
NextGeometry ==
  \/ SetFormatActive(ModeSizes, 0)
  \/ SetCtrl({"link_freq"}, 0)
  \/ StartStreaming(MaxFail)
  \/ StopStreaming(0)
  \/ Return

SpecGeometry == InitWith(SeqLists) /\ [][NextGeometry]_vars

(***************************************************************************)
(* SpecProbe: the probe of a device on every endpoint of one, two or four   *)
(* lanes and up to three link frequencies, with a right or a wrong chip     *)
(* id and any one failing step, and the first calls on a bound device.      *)
(***************************************************************************)
ProbeLanes == {1, 2, 4}
ProbeFreqs == {OV64A40_LINK_FREQ_456M, OV64A40_LINK_FREQ_360M, 400000000}
ProbeFreqLists ==
  {<< >>} \cup {<<a>> : a \in ProbeFreqs}
  \cup {<<a, b>> : a \in ProbeFreqs, b \in ProbeFreqs}
  \cup {<<a, b, c>> : a \in ProbeFreqs, b \in ProbeFreqs,
                      c \in {OV64A40_LINK_FREQ_456M}}
ProbeChipIds == {OV64A40_CHIP_ID, 0}

NoCtrls == [id \in CtrlIds |-> Ctrl(0, 0, 0, 0)]

InitProbe ==
  /\ \E lanes \in ProbeLanes, freqs \in ProbeFreqLists,
        chip_id \in ProbeChipIds, fault \in ProbeFaults :
       probed = ProbeState(Dt(lanes, freqs), chip_id, fault, FALSE, FALSE)
  /\ link_frequencies = << >>
  /\ mode = 0
  /\ ctrl = NoCtrls
  /\ grabbed = {}
  /\ usage = 0
  /\ active = FALSE
  /\ fmt = NoFmt
  /\ crop = Rect(0, 0, 0, 0)
  /\ streaming = FALSE
  /\ pc = "unbound"
  /\ op = NoOp
  /\ ret = OK
  /\ log = << >>
  /\ outfmt = NoFmt
  /\ delay = 0
  /\ timings = NoTimings
  /\ holders = {}
  /\ trail = NoTrail

NextProbe ==
  \/ Probe
  \/ SetCtrl({"gain"}, 0)
  \/ Autosuspend
  \/ Return

SpecProbe == InitProbe /\ [][NextProbe]_vars

(***************************************************************************)
(* The properties.  A call is the step from pc = "ready" to                 *)
(* pc = "returned"; in the state after it op, ret and log describe it.      *)
(***************************************************************************)
GrabbedWhileStreaming == {"link_freq", "vflip", "hflip"}
BusOps == {"write", "update_bits", "multi_write"}

Returned(name) == pc = "returned" /\ op.name = name
Calls(name) == pc = "ready" /\ pc' = "returned" /\ op'.name = name

(* positions of the bus transactions of the call, and of those that failed *)
BusAt(l) == {i \in 1..Len(l) : l[i].op \in BusOps}
FailedAt(l) == {i \in BusAt(l) : ~l[i].ok}
Has(l, o) == \E i \in 1..Len(l) : l[i].op = o

(* the step of ov64a40_start_streaming an event belongs to *)
GeometryRegs ==
  {"TIMING_CTRL0", "TIMING_CTRL2", "TIMING_CTRL4", "TIMING_CTRL6",
   "TIMING_CTRL10", "TIMING_CTRL12", "TIMING_CTRL8", "TIMING_CTRLA",
   "TIMING_CTRLC", "TIMING_CTRLE"}
SubsamplingRegs == {"TIMING_CTRL14", "TIMING_CTRL15"}
SubsamplingBits == {"VBIN", "HBIN_CONF"}
ModeTables == {ov64a40_modes[m].reglist : m \in 1..NumModes}

StepOf(e) ==
  CASE e.op = "pm_get" -> 1
    [] e.op = "multi_write" /\ e.reg = "ov64a40_init" -> 2
    [] e.op = "multi_write" /\ e.reg \in ModeTables -> 3
    [] e.op = "write" /\ e.reg \in GeometryRegs -> 4
    [] e.op = "write" /\ e.reg \in SubsamplingRegs -> 5
    [] e.op = "update_bits" /\ e.mask \in SubsamplingBits -> 5
    [] e.op = "write" /\ e.reg = "SMIA" -> 7
    [] e.op = "grab" -> 8
    [] OTHER -> 6

(* C1: a stream start in which a register write failed issued no register   *)
(* write after the failed one, released the power reference it took, left   *)
(* link_freq, vflip and hflip un-grabbed, returned the error, and the       *)
(* device is idle.                                                          *)
C1_FailedStartAborts ==
  (Returned("start") /\ FailedAt(log) # {}) =>
    /\ \A i \in FailedAt(log) : \A j \in BusAt(log) : j <= i
    /\ ret = "EIO"
    /\ Has(log, "pm_put")
    /\ usage = 0
    /\ grabbed \cap GrabbedWhileStreaming = {}
    /\ ~streaming

(* a start that failed at a register write and went through the cleanup *)
C1_Witness ==
  /\ Returned("start")
  /\ FailedAt(log) # {}
  /\ ret = "EIO"
  /\ usage = 0
  /\ Has(log, "pm_put")

(* C2: a stream start that returned success issued power-on, the global     *)
(* program, the mode's program, the ten geometry writes, the four           *)
(* subsampling writes, the control replay, the streaming bit and then the   *)
(* three grabs, in this order, each step present, and none of its register  *)
(* writes failed.                                                           *)
C2_StartOrder ==
  (Returned("start") /\ ret = OK) =>
    /\ \A i \in 1..Len(log) : \A j \in 1..Len(log) :
         i < j => StepOf(log[i]) <= StepOf(log[j])
    /\ \A k \in 1..8 : \E i \in 1..Len(log) : StepOf(log[i]) = k
    /\ log[1].op = "pm_get"
    /\ log[3].reg = ov64a40_modes[mode].reglist
    /\ [i \in 1..10 |-> log[3 + i].reg] =
         << "TIMING_CTRL0", "TIMING_CTRL2", "TIMING_CTRL4", "TIMING_CTRL6",
            "TIMING_CTRL10", "TIMING_CTRL12", "TIMING_CTRL8", "TIMING_CTRLA",
            "TIMING_CTRLC", "TIMING_CTRLE" >>
    /\ Cardinality({i \in 1..Len(log) : StepOf(log[i]) = 5}) = 4
    /\ [i \in 1..3 |-> log[Len(log) - 3 + i].reg] =
         << "link_freq", "vflip", "hflip" >>
    /\ FailedAt(log) = {}

(* a successful start from a suspended device *)
C2_Witness ==
  /\ Returned("start")
  /\ ret = OK
  /\ log[1].reg = "power_on"
  /\ streaming

(* C3: while streaming, a write to link_freq, vflip or hflip is refused with *)
(* a control error, EBUSY for a value of the control's range, and changes no *)
(* control and touches no register; while not streaming the write is not     *)
(* refused as busy, and a value of the range is stored when the bus works.   *)
C3_GrabbedWrites ==
  [][(Calls("s_ctrl") /\ op'.id \in GrabbedWhileStreaming) =>
       LET id    == op'.id
           valid == ctrl[id].min <= op'.val /\ op'.val <= ctrl[id].max
       IN  IF streaming
           THEN /\ ret' \in {"EBUSY", "ERANGE"}
                /\ valid => ret' = "EBUSY"
                /\ ctrl' = ctrl
                /\ log' = << >>
           ELSE /\ ret' # "EBUSY"
                /\ (valid /\ FailedAt(log') = {}) =>
                     (ret' = OK /\ ctrl'[id].val = op'.val)]_vars

(* a flip was written while streaming and refused *)
C3_Witness ==
  /\ Returned("s_ctrl")
  /\ op.id = "hflip"
  /\ streaming
  /\ ret = "EBUSY"
  /\ op.val # ctrl.hflip.val

(* C4: a stream stop drops the power reference and un-grabs link_freq,      *)
(* vflip and hflip, whether or not clearing the streaming bit succeeded.    *)
C4_StopReleases ==
  [][Calls("stop") =>
       /\ usage' = usage - 1
       /\ Has(log', "pm_put")
       /\ grabbed' \cap GrabbedWhileStreaming = {}]_vars

(* a stop whose register write failed, with everything released *)
C4_Witness ==
  /\ Returned("stop")
  /\ FailedAt(log) # {}
  /\ usage = 0
  /\ grabbed = {}

(* C5: a stream stop whose write clearing the streaming bit failed returns  *)
(* that failure to its caller.                                              *)
C5_StopFailureReported ==
  (Returned("stop") /\ FailedAt(log) # {}) => IsErr(ret)

(* C5, as the code has it: a stream stop whose write clearing the streaming *)
(* bit failed still returns success to its caller, with the device idle     *)
(* and the three controls un-grabbed.                                       *)
C5_StopFailureDropped ==
  (Returned("stop") /\ FailedAt(log) # {}) =>
    /\ ret = OK
    /\ ~streaming
    /\ Has(log, "ungrab")

(* a stop that returned success although its register write failed *)
C5_Witness ==
  /\ Returned("stop")
  /\ FailedAt(log) # {}
  /\ ret = OK
  /\ ~streaming

(* C6: after a successful stream start and the stop right after it the      *)
(* device is idle: not streaming, the power reference dropped, none of      *)
(* link_freq, vflip and hflip grabbed, and every control has the value it   *)
(* had before the start.                                                    *)
C6_StartStopRoundTrip ==
  (Returned("stop") /\ trail.after = "start,stop") =>
    /\ ~streaming
    /\ usage = 0
    /\ grabbed \cap GrabbedWhileStreaming = {}
    /\ Vals(ctrl) = trail.vals

(* the timings of the mode and link frequency in use *)
CurTimings == ov64a40_get_timings(
  [link_frequencies |-> link_frequencies, mode |-> mode], ctrl.link_freq.val)

(* C7: in every state the maximum of exposure is the mode's height plus the *)
(* value of vblank minus OV64A40_EXPOSURE_MARGIN, and the value of exposure *)
(* is at most that maximum.                                                 *)
C7_ExposureFollowsVblank ==
  /\ ctrl.exposure.max =
       ov64a40_modes[mode].height + ctrl.vblank.val - OV64A40_EXPOSURE_MARGIN
  /\ ctrl.exposure.val <= ctrl.exposure.max

(* C8: writing vblank, at its default, to its maximum makes the maximum of  *)
(* exposure the mode's height plus that maximum minus the margin, and       *)
(* writing vblank back to its default next makes the maximum of exposure    *)
(* what it was before the two writes.                                       *)
C8_VblankRoundTrip ==
  /\ (Returned("s_ctrl") /\ trail.after = "max") =>
       ctrl.exposure.max =
         ov64a40_modes[mode].height + ctrl.vblank.max - OV64A40_EXPOSURE_MARGIN
  /\ (Returned("s_ctrl") /\ trail.after = "max,def") =>
       ctrl.exposure.max = trail.exp_max

(* C9: after ov64a40_set_format on the active state chose another mode,     *)
(* vblank has the minimum OV64A40_VBLANK_MIN, the maximum OV64A40_VTS_MAX    *)
(* minus the height, and as default and value the timings' vts minus the    *)
(* height; the maximum of exposure is vts minus the margin and its value is *)
(* at most that; hblank is ppl * 4 minus the width.                         *)
C9_ModeChangeLimits ==
  [][(Calls("set_fmt") /\ op'.id = "ACTIVE" /\ mode' # mode) =>
       LET m == ov64a40_modes[mode']
           t == CurTimings'
       IN  /\ ctrl'.vblank = Ctrl(t.vts - m.height, OV64A40_VBLANK_MIN,
                                  OV64A40_VTS_MAX - m.height, t.vts - m.height)
           /\ ctrl'.exposure.max = t.vts - OV64A40_EXPOSURE_MARGIN
           /\ ctrl'.exposure.val <= ctrl'.exposure.max
           /\ ctrl'.hblank.val = t.ppl * 4 - m.width]_vars

(* C10: every write to hblank is refused and changes nothing, and after a   *)
(* call that changed the mode or the link frequency hblank is the ppl of    *)
(* the timings in use times 4 minus the mode's width.                       *)
C10_HblankDerived ==
  [][/\ (Calls("s_ctrl") /\ op'.id = "hblank") =>
          (IsErr(ret') /\ ctrl' = ctrl /\ log' = << >>)
     /\ (/\ pc = "ready" /\ pc' = "returned"
         /\ (mode' # mode \/ ctrl'.link_freq.val # ctrl.link_freq.val)) =>
          ctrl'.hblank.val =
            CurTimings'.ppl * 4 - ov64a40_modes[mode'].width]_vars

(* C11: in every state the default of vblank is the vts of the timings in   *)
(* use minus the height of the mode in use.                                 *)
C11_VblankDefaultFollowsTimings ==
  ctrl.vblank.def = CurTimings.vts - ov64a40_modes[mode].height

(* C12: a write of a value of its range to a writable control of a          *)
(* suspended device returns success, stores the value, for a new value of  *)
(* vblank also moves the maximum of exposure to height + value - margin,    *)
(* issues no bus transaction and takes no power reference.                  *)
C12_SuspendedWriteStored ==
  [][(/\ Calls("s_ctrl")
      /\ ~active
      /\ op'.id \notin ReadOnlyCtrls
      /\ ctrl[op'.id].min <= op'.val /\ op'.val <= ctrl[op'.id].max) =>
       /\ ret' = OK
       /\ ctrl'[op'.id].val = op'.val
       /\ (op'.id = "vblank" /\ op'.val # ctrl.vblank.val) =>
            /\ ctrl'.exposure.max = ov64a40_modes[mode].height + op'.val
                                      - OV64A40_EXPOSURE_MARGIN
            /\ ctrl'.exposure.val <= ctrl'.exposure.max
       /\ log' = << >>
       /\ usage' = usage
       /\ ~active']_vars

(* vblank went from its default to its maximum on a suspended device *)
C12_Witness ==
  /\ Returned("s_ctrl")
  /\ op.id = "vblank"
  /\ ~active
  /\ trail.after = "max"
  /\ ctrl.vblank.val = ctrl.vblank.max
  /\ log = << >>

(* the value the last successful transaction of the call left in a field *)
WritesTo(reg, mask) ==
  {i \in BusAt(log) : log[i].reg = reg /\ log[i].mask = mask /\ log[i].ok}
LastWrite(reg, mask) ==
  log[CHOOSE i \in WritesTo(reg, mask) : \A j \in WritesTo(reg, mask) : j <= i]
Written(reg, mask, val) ==
  /\ WritesTo(reg, mask) # {}
  /\ LastWrite(reg, mask).val = val

(* what a stream start has to leave in the sensor for control values v *)
ReplayWrote(v) ==
  LET vts == ov64a40_modes[mode].height + v.vblank IN
  /\ Written("MEC_LONG_EXPO", "", v.exposure)
  /\ Written("MEC_LONG_GAIN", "", v.gain * 2)
  /\ Written("TIMINGS_VTS_LOW", "", vts)
  /\ Written("TIMINGS_VTS_MID", "", vts \div 256)
  /\ Written("TIMINGS_VTS_HIGH", "", vts \div 65536)
  /\ Written("TIMING_CTRL_20", "VFLIP", v.vflip * 4)
  /\ Written("TIMING_CTRL_21", "HFLIP", IF v.hflip = 1 THEN 0 ELSE 1)
  /\ Written("TEST_PATTERN", "", v.test_pattern)
  /\ WritesTo("ov64a40_pll_config", "") # {}
  /\ IF link_frequencies[v.link_freq + 1] = OV64A40_LINK_FREQ_360M
     THEN Written("PLL1_MULTIPLIER", "", 120)
     ELSE WritesTo("PLL1_MULTIPLIER", "") = {}

(* C13: a successful stream start leaves in the sensor the exposure, gain,  *)
(* frame length, flips, test pattern and PLL configuration derived from     *)
(* the values the controls had when the start was called.                   *)
C13_StartReplaysControls ==
  (Returned("start") /\ ret = OK) => ReplayWrote(trail.vals)

(* the catalogue entries closest to a size, and the first of them *)
Closest(width, height) ==
  {m \in 1..NumModes :
     \A n \in 1..NumModes : SizeError(m, width, height) <= SizeError(n, width, height)}
FirstClosest(width, height) ==
  CHOOSE m \in Closest(width, height) : \A n \in Closest(width, height) : m <= n

C15_TimingsByFrequency ==
  Returned("get_timings") =>
    LET reduced == link_frequencies[op.val + 1] = OV64A40_LINK_FREQ_360M
        variant == ov64a40_modes[mode].timings_default
    IN  /\ reduced => timings = variant[OV64A40_LINK_FREQ_360M_ID + 1]
        /\ ~reduced => timings = variant[OV64A40_LINK_FREQ_456M_ID + 1]
        /\ (SizeOf(mode) = <<3840, 2160>> /\ ~reduced) =>
             timings = Timings(2218, 1690)
        /\ (SizeOf(mode) = <<3840, 2160>> /\ reduced) =>
             timings = Timings(2270, 2202)

(* 456 MHz is second in the list and index 1 gave 3840x2160 its 456 MHz     *)
(* timings                                                                  *)
C15_Witness ==
  /\ Returned("get_timings")
  /\ link_frequencies = << OV64A40_LINK_FREQ_360M, OV64A40_LINK_FREQ_456M >>
  /\ op.val = 1
  /\ SizeOf(mode) = <<3840, 2160>>
  /\ timings = Timings(2218, 1690)

(* C16: the vts of any resolved timings is at least the mode's height + 1   *)
(* and leaves, less the exposure margin, at least the exposure minimum.     *)
C16_TimingsLeaveExposureRange ==
  Returned("get_timings") =>
    /\ timings.vts >= ov64a40_modes[mode].height + 1
    /\ timings.vts - OV64A40_EXPOSURE_MARGIN >= OV64A40_EXPOSURE_MIN

(* the timings with the least room: 3840x2160 at 456 MHz, 58 lines above    *)
(* the height                                                               *)
C16_Witness ==
  /\ Returned("get_timings")
  /\ SizeOf(mode) = <<3840, 2160>>
  /\ link_frequencies[op.val + 1] = OV64A40_LINK_FREQ_456M
  /\ timings.vts = ov64a40_modes[mode].height + 58

(* the caller of the operation that returned *)
CallerOf(o) ==
  CASE o.name \in {"start", "stop"} -> "stream"
    [] o.name = "set_fmt" -> "fmt"
    [] o.name = "s_ctrl" -> "ctrl"

(* C17: stream start and stop, negotiation of the active format and control *)
(* writes exclude each other: at most one caller holds its lock, and an     *)
(* operation runs while its caller is the only holder.                      *)
C17_OneLock ==
  /\ Cardinality(holders) <= 1
  /\ (pc = "returned") => holders = {CallerOf(op)}

(* a control write ran under the lock after the stream was started under it *)
C17_Witness ==
  /\ Returned("s_ctrl")
  /\ holders = {"ctrl"}
  /\ streaming

(* ceil(a * e / d) in full, for a below 2^15, e below 2^24 and a small d *)
CeilMulDiv(a, e, d) ==
  LET high == a * (e \div 65536)
      low  == a * (e % 65536) + d - 1
  IN  (high \div d) * 65536 + ((high % d) * 65536 + low) \div d

(* C18: after a successful stream start the settle delay is                 *)
(* max(ceil(4096 / xclk in MHz), 150) + ceil(4 * ppl * exposure / pixel     *)
(* rate in MHz) microseconds, for the ppl of the timings in use and the     *)
(* exposure value at that time, the product taken in full.                  *)
C18_SettleDelay ==
  (Returned("start") /\ ret = OK) =>
    LET xclk_mhz == OV64A40_XCLK_FREQ \div 1000000
        rate_mhz == OV64A40_PIXEL_RATE \div 1000000
        wake     == (4096 + xclk_mhz - 1) \div xclk_mhz
    IN  delay = (IF wake > 150 THEN wake ELSE 150)
                + CeilMulDiv(4 * CurTimings.ppl, ctrl.exposure.val, rate_mhz)

(* the register and value of the events of the call that satisfy a test *)
IsGeometry(e) == e.op = "write" /\ e.reg \in GeometryRegs
IsSubsampling(e) ==
  \/ e.op = "write" /\ e.reg \in SubsamplingRegs
  \/ e.op = "update_bits" /\ e.mask \in SubsamplingBits
RegVal(e) == << e.reg, e.mask, e.val >>
RegVals(l) == [i \in 1..Len(l) |-> RegVal(l[i])]
IsPrefix(a, b) == Len(a) <= Len(b) /\ a = SubSeq(b, 1, Len(a))

(* the geometry and the subsampling of the mode and timings in use *)
GeometryOf(m, t) ==
  LET a == m.analogue_crop
      d == m.digital_crop
  IN  << <<"TIMING_CTRL0", "", a.left>>,
         <<"TIMING_CTRL2", "", a.top>>,
         <<"TIMING_CTRL4", "", a.left + a.width - 1>>,
         <<"TIMING_CTRL6", "", a.top + a.height - 1>>,
         <<"TIMING_CTRL10", "", d.left>>,
         <<"TIMING_CTRL12", "", d.top>>,
         <<"TIMING_CTRL8", "", d.width>>,
         <<"TIMING_CTRLA", "", d.height>>,
         <<"TIMING_CTRLC", "", t.ppl>>,
         <<"TIMING_CTRLE", "", t.vts>> >>
SubsamplingOrder ==
  << <<"TIMING_CTRL14", "">>, <<"TIMING_CTRL15", "">>,
     <<"TIMING_CTRL_20", "VBIN">>, <<"TIMING_CTRL_21", "HBIN_CONF">> >>

(* C19: the geometry writes of a stream start are, in this order, the       *)
(* analogue crop's left, top, left + width - 1 and top + height - 1, the    *)
(* digital crop's left, top, width and height, the ppl and the vts of the   *)
(* timings in use, all ten of them when the start succeeds; each comes      *)
(* before every subsampling write, and those are the two skipping           *)
(* registers, then the vertical and the horizontal binning bits.            *)
C19_GeometryOrder ==
  Returned("start") =>
    LET g == SelectSeq(log, IsGeometry)
        u == SelectSeq(log, IsSubsampling)
    IN  /\ IsPrefix(RegVals(g), GeometryOf(ov64a40_modes[mode], CurTimings))
        /\ [i \in 1..Len(u) |-> << u[i].reg, u[i].mask >>]
             = SubSeq(SubsamplingOrder, 1, Len(u))
        /\ ret = OK => Len(g) = 10 /\ Len(u) = 4
        /\ \A i, j \in 1..Len(log) :
             (IsGeometry(log[i]) /\ IsSubsampling(log[j])) => i < j

(* a start of 1920x1080, whose analogue crop starts off the origin, at      *)
(* 360 MHz succeeded                                                        *)
C19_Witness ==
  /\ Returned("start")
  /\ ret = OK
  /\ SizeOf(mode) = <<1920, 1080>>
  /\ ov64a40_modes[mode].analogue_crop.left > 0
  /\ link_frequencies[ctrl.link_freq.val + 1] = OV64A40_LINK_FREQ_360M
  /\ Len(SelectSeq(log, IsGeometry)) = 10
  /\ Len(SelectSeq(log, IsSubsampling)) = 4

(* the bus transactions of a call, and what a link-frequency configuration  *)
(* for index idx of the list is: the PLL table, then, if it went through    *)
(* and the frequency at idx is 360 MHz, the multiplier, and nothing else    *)
IsBus(e) == e.op \in BusOps
IsPllTable(e) == e.op = "multi_write" /\ e.reg = "ov64a40_pll_config"
IsPllOverride(e) ==
  e.op = "write" /\ e.reg = "PLL1_MULTIPLIER" /\ e.val = 120
LinkFreqConfigured(b, r, idx) ==
  /\ Len(b) >= 1
  /\ IsPllTable(b[1])
  /\ IF ~b[1].ok THEN Len(b) = 1 /\ IsErr(r)
     ELSE IF link_frequencies[idx + 1] = OV64A40_LINK_FREQ_360M
     THEN Len(b) = 2 /\ IsPllOverride(b[2]) /\ (b[2].ok <=> r = OK)
     ELSE Len(b) = 1 /\ r = OK

(* the transactions of the call from its PLL table on, two at most *)
FromPllTable(b) ==
  LET at == {i \in 1..Len(b) : IsPllTable(b[i])}
      i0 == CHOOSE i \in at : \A j \in at : i <= j
      i1 == IF i0 < Len(b) /\ b[i0 + 1].reg = "PLL1_MULTIPLIER"
            THEN i0 + 1 ELSE i0
  IN  IF at = {} THEN << >> ELSE SubSeq(b, i0, i1)

(* C20: a write of a new value to link_freq on a powered device that is not *)
(* streaming writes the PLL table first and then the PLL multiplier exactly *)
(* when the frequency at the written index is 360 MHz; when the table       *)
(* write fails the multiplier is not written and the error is returned.     *)
(* The replay of link_freq by a successful stream start does the same.      *)
C20_LinkFreqConfig ==
  [][/\ (/\ Calls("s_ctrl")
         /\ op'.id = "link_freq"
         /\ active
         /\ "link_freq" \notin grabbed
         /\ ctrl.link_freq.min <= op'.val /\ op'.val <= ctrl.link_freq.max
         /\ op'.val # ctrl.link_freq.val) =>
          LinkFreqConfigured(SelectSeq(log', IsBus), ret', op'.val)
     /\ (Calls("start") /\ ret' = OK) =>
          LinkFreqConfigured(FromPllTable(SelectSeq(log', IsBus)), OK,
                             ctrl'.link_freq.val)]_vars

(* the write of index 1, 360 MHz, wrote the table and the multiplier *)
C20_Witness ==
  /\ Returned("s_ctrl")
  /\ op.id = "link_freq"
  /\ op.val = 1
  /\ ret = OK
  /\ ctrl.link_freq.val = 1
  /\ Len(SelectSeq(log, IsBus)) = 2
  /\ IsPllOverride(SelectSeq(log, IsBus)[2])

(* the controls that map to one register field, and the access a write of  *)
(* val to one of them is                                                    *)
DirectCtrls == {"exposure", "gain", "vflip", "hflip", "test_pattern"}
DirectAccess(id, val) ==
  CASE id = "exposure" -> << "write", "MEC_LONG_EXPO", "", val, "" >>
    [] id = "gain" -> << "write", "MEC_LONG_GAIN", "", val * 2, "" >>
    [] id = "vflip" -> << "update_bits", "TIMING_CTRL_20", "VFLIP", val * 4, "" >>
    [] id = "hflip" -> << "update_bits", "TIMING_CTRL_21", "HFLIP",
                          IF val = 1 THEN 0 ELSE 1, "" >>
    [] id = "test_pattern" -> << "write", "TEST_PATTERN", "", val,
                                 ov64a40_test_pattern_val[val + 1] >>
AccessOf(e) == << e.op, e.reg, e.mask, e.val, e.sym >>

(* C21: a write to exposure, gain, vflip, hflip or test_pattern issues at    *)
(* most one bus transaction, which carries the exposure as it is, twice the *)
(* gain, the flip bit or the test pattern's table entry, and leaves every   *)
(* other control and the mode as they were.                                 *)
C21_DirectControls ==
  [][(Calls("s_ctrl") /\ op'.id \in DirectCtrls) =>
       LET b == SelectSeq(log', IsBus) IN
       /\ Len(b) <= 1
       /\ Len(b) = 1 => AccessOf(b[1]) = DirectAccess(op'.id, op'.val)
       /\ \A id \in CtrlIds \ {op'.id} : ctrl'[id] = ctrl[id]
       /\ mode' = mode]_vars

(* the largest gain was written, as 4094 *)
C21_Witness ==
  /\ Returned("s_ctrl")
  /\ op.id = "gain"
  /\ op.val = OV64A40_ANA_GAIN_MAX
  /\ ret = OK
  /\ Len(SelectSeq(log, IsBus)) = 1
  /\ SelectSeq(log, IsBus)[1].val = 4094

(* C22: a vblank write or a negotiation of the active format never leaves  *)
(* the exposure above what it was, and leaves it as it was when the new     *)
(* maximum of exposure is not below it.                                     *)
C22_ExposureNeverRaised ==
  [][(\/ Calls("s_ctrl") /\ op'.id = "vblank"
      \/ Calls("set_fmt") /\ op'.id = "ACTIVE") =>
       /\ ctrl'.exposure.val <= ctrl.exposure.val
       /\ ctrl'.exposure.max >= ctrl.exposure.val =>
            ctrl'.exposure.val = ctrl.exposure.val]_vars

(* on a smaller mode the exposure sat above its minimum, a write of the     *)
(* largest vblank grew the maximum of exposure far past it and the          *)
(* exposure stayed where it was                                             *)
C22_Witness ==
  /\ Returned("s_ctrl")
  /\ op.id = "vblank"
  /\ ret = OK
  /\ ctrl.vblank.val = ctrl.vblank.max
  /\ mode # 1
  /\ ctrl.exposure.val > ctrl.exposure.min
  /\ ctrl.exposure.val < 7040
  /\ ctrl.exposure.max > 7040

(* what the claim lists as fatal to the probe: a lane count other than 2,   *)
(* no or more than two link frequencies, or one that is neither 360 nor     *)
(* 456 MHz; a failed read of the chip id; a chip id that is not the         *)
(* sensor's                                                                 *)
BadEndpoint(dt) ==
  \/ dt.num_data_lanes # 2
  \/ Len(dt.link_frequencies) = 0
  \/ Len(dt.link_frequencies) > 2
  \/ \E i \in 1..Len(dt.link_frequencies) :
       dt.link_frequencies[i] \notin LinkFreqValues
StepsOf(l) == {l[i].op : i \in 1..Len(l)}

(* C23: a probe on a bad endpoint, with a failing chip-id read or with a    *)
(* wrong chip id returns an error and leaves the device powered off with    *)
(* no control handler and no sub-device registered; on a bad endpoint the   *)
(* power is never requested; a wrong chip id alone gives -ENODEV.           *)
C23_ProbeFailsOutright ==
  Returned("probe") =>
    /\ (\/ BadEndpoint(probed.dt)
        \/ probed.fault = "cci_read"
        \/ probed.chip_id # OV64A40_CHIP_ID) =>
          /\ IsErr(ret)
          /\ ~active
          /\ ~probed.ctrl_handler
          /\ ~probed.subdev
    /\ BadEndpoint(probed.dt) => "power_on" \notin StepsOf(log)
    /\ (/\ ~BadEndpoint(probed.dt)
        /\ probed.fault = "none"
        /\ probed.chip_id # OV64A40_CHIP_ID) => ret = "ENODEV"

(* on a good endpoint the chip answered another id: the device was powered  *)
(* on, read and powered off again                                           *)
C23_Witness ==
  /\ Returned("probe")
  /\ probed.dt = Dt(2, << OV64A40_LINK_FREQ_360M, OV64A40_LINK_FREQ_456M >>)
  /\ probed.fault = "none"
  /\ probed.chip_id = 0
  /\ ret = "ENODEV"
  /\ ~active
  /\ {"power_on", "identify", "power_off"} \subseteq StepsOf(log)

(* the power references a call holds after the first i events of its log *)
PmHeld(l, i) ==
  Cardinality({j \in 1..i : l[j].op = "pm_get_if_active"})
    - Cardinality({j \in 1..i : l[j].op = "pm_put"})

C25_PowerReferencesBalanced ==
  [][/\ Calls("s_ctrl") => usage' = usage
     /\ (Calls("start") /\ IsErr(ret')) => usage' = usage
     /\ (Calls("start") /\ ~IsErr(ret')) => (usage = 0 /\ usage' = 1)
     /\ Calls("stop") => (usage = 1 /\ usage' = 0)
     /\ usage' = (IF streaming' THEN 1 ELSE 0)
    ]_vars

(* a start failed on the bus: the reference it took is dropped after the    *)
(* failed transfer and the device is idle with a usage count of zero        *)
C25_Witness ==
  /\ Returned("start")
  /\ IsErr(ret)
  /\ ~streaming
  /\ usage = 0
  /\ \E i, j \in 1..Len(log) :
       /\ i < j
       /\ IsBus(log[i]) /\ ~log[i].ok
       /\ log[j].op = "pm_put"

(* the ranges ov64a40_set_format derives from the mode *)
ModeRanges(c) ==
  << c.vblank.min, c.vblank.max, c.vblank.def,
     c.exposure.min, c.exposure.max, c.hblank.min, c.hblank.max >>

(* C26: while the sensor streams the mode in use stays the one the stream   *)
(* start programmed: no step between two streaming states changes it, and   *)
(* an active-format negotiation made while streaming leaves the mode and    *)
(* the ranges of vblank, exposure and hblank as they were.                  *)
C26_ModeFixedWhileStreaming ==
  [][/\ (streaming /\ streaming') => mode' = mode
     /\ (streaming /\ Calls("set_fmt") /\ op'.id = "ACTIVE") =>
          ModeRanges(ctrl') = ModeRanges(ctrl)
    ]_vars

====
